---- MODULE Spec2Model ----
(***************************************************************************)
(* Lyric normalization and stanza alignment of lyric_fetcher.              *)
(*                                                                         *)
(* A text is a sequence of one-character strings, so that trimming,        *)
(* joining and counting newlines are computed, not assumed.  A line of a   *)
(* Line Sequence is either a text or (utils.py accepts                     *)
(* list[str | list[str]]) a pre-built stanza, a list of texts.             *)
(***************************************************************************)
EXTENDS Integers, Sequences, FiniteSets, TLC

VARIABLES
    entry,            \* the entry point of this request
    lang_lyrics_map,  \* language -> Line Sequence (the adapter's result / the caller's argument)
    add_linebreaks,   \* language -> forced-break indices (caller's argument; empty map = None)
    add_lines,        \* language -> extra trailing lines (caller's argument; empty map = None)
    replace_lb,       \* the replace flag (strip existing break markers)
    line_breaks,      \* LyricNormalizer.line_breaks: the object's own sets, mutated by _iter_stanzas
    pc,               \* "start", "constructed" (a LyricNormalizer exists), "done"
    calls,            \* number of normalize() calls made on the LyricNormalizer
    result,           \* outcome of the last normalization
    error,            \* the exception the request ended with ("none" when it returned)
    files,            \* output documents written by process_lyrics
    response,         \* the web layer's answer
    command,          \* the options of the command line or of the web request
    sources,          \* what the two sources of a hybrid request hold (Korean site, English site)
    bundle,           \* what get_lyrics returned to process_lyrics
    position,         \* number of songs the get command has gone through
    fetched,          \* the pages requested so far, in order
    today,            \* the calendar day, as datetime.now() gives it
    cache,            \* the entries of the FSCache directory: prefix, key and the stored page
    served            \* what the last cached call did: its request, its key and what it returned

\* the state the normalizer and the presentation layer work on
coreVars == <<entry, lang_lyrics_map, add_linebreaks, add_lines, replace_lb,
              line_breaks, pc, calls, result, error, files, response>>

\* the request's options and what get_lyrics handed over
cliVars == <<command, sources, bundle, position>>

\* the clock and the page cache
cacheVars == <<today, cache, served>>

vars == <<coreVars, cliVars, fetched, cacheVars>>

----------------------------------------------------------------------------
(* Bounds of the model *)

\* longest scraped Line Sequence of the detailed language
MaxLen == 3
\* most forced-break indices given for one language
MaxBreaks == 2
\* most extra trailing lines given for one language
MaxExtra == 1
\* most normalize() calls on one LyricNormalizer object
MaxCalls == 2
\* most song endpoints given to one get command
MaxSongs == 2

----------------------------------------------------------------------------
(* Texts and lines *)

\* the break-marker sentinel '<br/>'
BR == <<"<", "b", "r", "/", ">">>

NL == "\n"

\* characters str.strip() removes
Whitespace == {" ", "\n", "\r", "\t"}

RECURSIVE LStrip(_)
LStrip(s) == IF s # <<>> /\ Head(s) \in Whitespace THEN LStrip(Tail(s)) ELSE s

RECURSIVE RStrip(_)
RStrip(s) ==
    IF s # <<>> /\ s[Len(s)] \in Whitespace THEN RStrip(SubSeq(s, 1, Len(s) - 1)) ELSE s

\* str.strip()
Strip(s) == RStrip(LStrip(s))

\* a text line, and a line that is a pre-built stanza (isinstance(line, list))
Str(s) == [list |-> FALSE, val |-> <<s>>]
Lst(ss) == [list |-> TRUE, val |-> ss]
IsList(line) == line.list
Text(line) == line.val[1]

\* Python's None, among texts
NoneVal == <<"None">>
Truthy(t) == t # NoneVal /\ t # <<>>
\* a or b
Or(a, b) == IF Truthy(a) THEN a ELSE b

RECURSIVE Count(_, _)
\* str.count(c) for a one-character c
Count(s, c) ==
    IF s = <<>> THEN 0 ELSE (IF Head(s) = c THEN 1 ELSE 0) + Count(Tail(s), c)

RECURSIVE Join(_, _)
\* sep.join(parts)
Join(sep, parts) ==
    IF parts = <<>> THEN <<>>
    ELSE IF Len(parts) = 1 THEN parts[1]
    ELSE parts[1] \o sep \o Join(sep, Tail(parts))

Max(S) == CHOOSE m \in S : \A x \in S : x <= m

\* [f(x) for x in seq]
MapSeq(Op(_), seq) == [k \in 1..Len(seq) |-> Op(seq[k])]

EmptyMap == [x \in {} |-> {}]

\* dict.get(key, default)
Get(map, key, default) == IF key \in DOMAIN map THEN map[key] ELSE default

----------------------------------------------------------------------------
(* LyricNormalizer (utils.py) *)

\* LyricNormalizer.__init__: line_breaks holds a fresh set per language of a truthy
\* add_linebreaks; extra_lyrics holds the caller's lists
InitLineBreaks(linebreaks) == [lang \in DOMAIN linebreaks |-> linebreaks[lang]]

InitExtraLyrics(lines) == [lang \in DOMAIN lines |-> lines[lang]]

RECURSIVE StripExisting(_)
\* [line for line in lang_lyrics if line != '<br/>']: the comparison is made before
\* any trimming, and a pre-built stanza never equals the sentinel
StripExisting(lang_lyrics) ==
    IF lang_lyrics = <<>> THEN <<>>
    ELSE LET line == Head(lang_lyrics)
             keep == IsList(line) \/ Text(line) # BR
         IN (IF keep THEN <<line>> ELSE <<>>) \o StripExisting(Tail(lang_lyrics))

\* the sequence whose length is lyric_len
Scraped(lang_lyrics, replace) == IF replace THEN StripExisting(lang_lyrics) ELSE lang_lyrics

\* mutant: a negative index resolved one position too early
ResolveBreaksOffByOne(lb_set, lyric_len) ==
    lb_set \cup {lyric_len + lb - 1 : lb \in {x \in lb_set : x < 0}}

\* mutant: an index past the end moved onto the last line
ResolveBreaksClamped(lb_set, lyric_len) ==
    lb_set \cup {lyric_len + lb : lb \in {x \in lb_set : x < 0}}
           \cup {lyric_len - 1 : lb \in {x \in lb_set : x >= lyric_len}}

\* for lb in list(lb_set): if lb < 0: lb_set.add(lyric_len + lb)
ResolveBreaks(lb_set, lyric_len) ==
    lb_set \cup {lyric_len + lb : lb \in {x \in lb_set : x < 0}}

\* chain(lang_lyrics, self.extra_lyrics.get(lang, []))
Working(lang_lyrics, extra, replace) == Scraped(lang_lyrics, replace) \o extra

\* mutant: the "and stanza" guard forgotten
ClosesStanzaUnguarded(is_br, i, lb_set, stanza) == is_br \/ i \in lb_set

\* mutant: the forced-break indices ignored
ClosesOnMarkerOnly(is_br, i, lb_set, stanza) == is_br /\ stanza # <<>>

\* ((is_br := line == '<br/>') or i in lb_set) and stanza
ClosesStanza(is_br, i, lb_set, stanza) == (is_br \/ i \in lb_set) /\ stanza # <<>>

\* mutant: the stanza in progress yielded even when it is empty
EmitAlways(out, stanza) == Append(out, stanza)

\* yield stanza, when there is one
Emit(out, stanza) == IF stanza # <<>> THEN Append(out, stanza) ELSE out

RECURSIVE Walk(_, _, _, _, _)
\* the loop of _iter_stanzas from position i (zero-based) on, with the stanza in
\* progress and the stanzas yielded so far
Walk(lines, i, lb_set, stanza, out) ==
    IF i >= Len(lines) THEN Emit(out, stanza)
    ELSE LET line == lines[i + 1] IN
         IF IsList(line)
         THEN Walk(lines, i + 1, lb_set, <<>>, Append(Emit(out, stanza), line.val))
         ELSE LET s == Strip(Text(line)) IN
              IF s = <<>> THEN Walk(lines, i + 1, lb_set, stanza, out)
              ELSE LET is_br  == s = BR
                       closes == ClosesStanza(is_br, i, lb_set, stanza)
                       open   == IF closes THEN <<>> ELSE stanza
                   IN Walk(lines, i + 1, lb_set,
                           IF is_br THEN open ELSE Append(open, s),
                           IF closes THEN Append(out, stanza) ELSE out)

\* mutant: negative indices resolved after the extra lines are chained
IterStanzasResolvesAfterChain(lang_lyrics, lb_set, extra, replace) ==
    Walk(Working(lang_lyrics, extra, replace), 0,
         ResolveBreaks(lb_set, Len(Working(lang_lyrics, extra, replace))), <<>>, <<>>)

\* LyricNormalizer._iter_stanzas, as a list: the stanzas of one language, given the
\* set the object holds for it (or a fresh empty set)
IterStanzas(lang_lyrics, lb_set, extra, replace) ==
    Walk(Working(lang_lyrics, extra, replace), 0,
         ResolveBreaks(lb_set, Len(Scraped(lang_lyrics, replace))), <<>>, <<>>)

\* what _iter_stanzas leaves in self.line_breaks: lb_set is the object's own set
\* when the language has one, and a discarded set() otherwise
LineBreaksAfter(lyrics, breaks, replace) ==
    [lang \in DOMAIN breaks |->
        IF lang \in DOMAIN lyrics
        THEN ResolveBreaks(breaks[lang], Len(Scraped(lyrics[lang], replace)))
        ELSE breaks[lang]]

\* mutant: the object keeps the caller's sets themselves
CallerBreaksShared(linebreaks, own) == [lang \in DOMAIN linebreaks |-> own[lang]]

\* {lang: set(lang_lb) for lang, lang_lb in add_linebreaks.items()}: each set the
\* walk adds to is a copy, so the caller's collections stay as they were whatever
\* the walk leaves in its own (own)
CallerBreaksAfter(linebreaks, own) == linebreaks

\* mutant: every language broken at the indices given for Korean
AllStanzasKoreanBreaks(lyrics, breaks, extras, replace) ==
    [lang \in DOMAIN lyrics |->
        IterStanzas(lyrics[lang], Get(breaks, "Korean", {}), Get(extras, lang, <<>>), replace)]

\* the dict comprehension of normalize()
AllStanzas(lyrics, breaks, extras, replace) ==
    [lang \in DOMAIN lyrics |->
        IterStanzas(lyrics[lang], Get(breaks, lang, {}), Get(extras, lang, <<>>), replace)]

\* len(set(stanza_lengths.values())) == 1
LengthsAgree(stanzas) == Cardinality({Len(stanzas[lang]) : lang \in DOMAIN stanzas}) = 1

\* (lang_a, stanzas_a), (lang_b, stanzas_b) = sorted(stanzas.items())
UnpacksTwo(stanzas) == Cardinality(DOMAIN stanzas) = 2

\* '\n\n'.join('\n'.join(stanza) for stanza in stanza_lists)
JoinStanzas(stanza_lists) ==
    Join(<<NL, NL>>, [k \in 1..Len(stanza_lists) |-> Join(<<NL>>, stanza_lists[k])])

\* StanzaMismatch.stanzas
ReportStanzas(all_stanzas) == [lang \in DOMAIN all_stanzas |-> JoinStanzas(all_stanzas[lang])]

\* mutant: rows counted instead of newlines
MaxLinesCountsRows(joined) == Max({Count(joined[lang], NL) + 1 : lang \in DOMAIN joined})

\* StanzaMismatch.max_lines: max(stanza.count('\n') for stanza in self.stanzas.values())
MaxLinesOf(joined) == Max({Count(joined[lang], NL) : lang \in DOMAIN joined})

NoReport == [stanzas |-> EmptyMap, max_lines |-> 0]

\* StanzaMismatch.__init__
StanzaMismatch(all_stanzas) ==
    [stanzas |-> ReportStanzas(all_stanzas), max_lines |-> MaxLinesOf(ReportStanzas(all_stanzas))]

\* how a normalization ended: kind is "return" or the exception raised; stanzas is the
\* dict normalize() built (its return value when kind is "return"); report is the
\* StanzaMismatch raised, if any
Outcome(kind, stanzas, report, ignore_len) ==
    [kind |-> kind, stanzas |-> stanzas, report |-> report, ignore_len |-> ignore_len]

NoResult == Outcome("none", EmptyMap, NoReport, FALSE)

\* mutant: the ignore_len test inverted
AlignInverted(stanzas, ignore_len) ==
    IF Cardinality({Len(stanzas[lang]) : lang \in DOMAIN stanzas}) = 1
    THEN Outcome("return", stanzas, NoReport, ignore_len)
    ELSE IF Cardinality(DOMAIN stanzas) # 2
         THEN Outcome("ValueError", stanzas, NoReport, ignore_len)
    ELSE IF ignore_len
         THEN Outcome("StanzaMismatch", stanzas,
                      [stanzas |-> [lang \in DOMAIN stanzas |-> <<>>], max_lines |-> 0], ignore_len)
    ELSE Outcome("return", stanzas, NoReport, ignore_len)

\* the alignment check of normalize(), given the stanzas it built
Align(stanzas, ignore_len) ==
    IF LengthsAgree(stanzas) THEN Outcome("return", stanzas, NoReport, ignore_len)
    ELSE IF ~UnpacksTwo(stanzas) THEN Outcome("ValueError", stanzas, NoReport, ignore_len)
    ELSE IF ~ignore_len
         THEN Outcome("StanzaMismatch", stanzas, StanzaMismatch(stanzas), ignore_len)
    ELSE Outcome("return", stanzas, NoReport, ignore_len)

\* LyricNormalizer.normalize on an object whose line_breaks is breaks
NormalizeOutcome(lyrics, breaks, extras, replace, ignore_len) ==
    Align(AllStanzas(lyrics, breaks, extras, replace), ignore_len)

\* utils.normalize_lyrics: a fresh LyricNormalizer, normalized once
NormalizeLyrics(lyrics, linebreaks, lines, replace, ignore_len) ==
    NormalizeOutcome(lyrics, InitLineBreaks(linebreaks), InitExtraLyrics(lines), replace, ignore_len)

----------------------------------------------------------------------------
(* normalize_lyrics of __init__.py: the list-based variant, which the command
   line's fetchers (SITE_CLASS_MAPPING of __init__.py) call.  Its callers pass
   text lines only. *)

\* is_br or (i in lb_set)
LegacyBreaks(is_br, i, lb_set) == is_br \/ i \in lb_set

RECURSIVE LegacyWalk(_, _, _, _, _)
LegacyWalk(lines, i, lb_set, stanza, out) ==
    IF i >= Len(lines) THEN Emit(out, stanza)
    ELSE LET line  == Text(lines[i + 1])
             is_br == line = BR
         IN IF LegacyBreaks(is_br, i, lb_set)
            THEN LegacyWalk(lines, i + 1, lb_set,
                            IF is_br THEN <<>> ELSE <<line>>, Emit(out, stanza))
            ELSE IF Strip(line) # <<>>
                 THEN LegacyWalk(lines, i + 1, lb_set, Append(stanza, line), out)
            ELSE LegacyWalk(lines, i + 1, lb_set, stanza, out)

LegacyStanzas(lyrics, linebreaks, lines, replace) ==
    [lang \in DOMAIN lyrics |->
        LegacyWalk(Working(lyrics[lang], Get(lines, lang, <<>>), replace), 0,
                   ResolveBreaks(Get(linebreaks, lang, {}), Len(Scraped(lyrics[lang], replace))),
                   <<>>, <<>>)]

LegacyNormalizeLyrics(lyrics, linebreaks, lines, replace, ignore_len) ==
    LET stanzas == LegacyStanzas(lyrics, linebreaks, lines, replace)
    IN IF ~LengthsAgree(stanzas) /\ ~ignore_len
       THEN Outcome("ValueError", stanzas, NoReport, ignore_len)
       ELSE Outcome("return", stanzas, NoReport, ignore_len)

----------------------------------------------------------------------------
(* The presentation layer: process_lyrics (base.py) and the web routes *)

RECURSIVE Replace(_, _, _)
\* str.replace(old, new) for a one-character old; new is a text
Replace(s, old, new) ==
    IF s = <<>> THEN <<>>
    ELSE (IF Head(s) = old THEN new ELSE <<Head(s)>>) \o Replace(Tail(s), old, new)

\* 'lyrics_{}.html'.format(final_title.replace(' ', '_').replace('?', ''))
OutputFilename(final_title) ==
    <<"lyrics_">> \o Replace(Replace(final_title, " ", <<"_">>), "?", <<>>) \o <<".html">>

\* stanzas['Translation'] = stanzas.pop('English')
RenameEnglish(stanzas) ==
    [lang \in (DOMAIN stanzas \ {"English"}) \cup {"Translation"} |->
        IF lang = "Translation" THEN stanzas["English"] ELSE stanzas[lang]]

\* max(len(lang_stanzas) for lang_stanzas in stanzas.values())
MaxStanzas(stanzas) == Max({Len(stanzas[lang]) : lang \in DOMAIN stanzas})

\* mutant: the empty stanzas put in front
PadInFront(stanzas) ==
    [lang \in DOMAIN stanzas |->
        [k \in 1..(MaxStanzas(stanzas) - Len(stanzas[lang])) |-> <<>>] \o stanzas[lang]]

\* for i in range(add_stanzas): lang_stanzas.append([])
Pad(stanzas) ==
    [lang \in DOMAIN stanzas |->
        stanzas[lang] \o [k \in 1..(MaxStanzas(stanzas) - Len(stanzas[lang])) |-> <<>>]]

NoResponse == [status |-> 0, view |-> "none", title |-> NoneVal, lyrics |-> EmptyMap, text |-> EmptyMap,
               stanza_count |-> 0, max_lines |-> 0, message |-> "none"]

\* render_song
RenderSong(title, stanzas) ==
    [status |-> 200, view |-> "song.html", title |-> title, lyrics |-> Pad(stanzas), text |-> EmptyMap,
     stanza_count |-> MaxStanzas(stanzas), max_lines |-> 0, message |-> "none"]

\* the except branch of song()
RenderReformat(title, report) ==
    [status |-> 200, view |-> "reformat.html", title |-> title, lyrics |-> EmptyMap, text |-> report.stanzas,
     stanza_count |-> 0, max_lines |-> report.max_lines, message |-> "none"]

RECURSIVE Split(_, _, _)
\* str.split(sep) for a non-empty sep, from the text s on with the piece in progress
Split(s, sep, piece) ==
    IF s = <<>> THEN <<piece>>
    ELSE IF Len(s) >= Len(sep) /\ SubSeq(s, 1, Len(sep)) = sep
         THEN <<piece>> \o Split(SubSeq(s, Len(sep) + 1, Len(s)), sep, <<>>)
    ELSE Split(Tail(s), sep, Append(piece, Head(s)))

\* [list(map(str.strip, stanza.split('\n'))) for stanza in text.strip().split('\n\n')],
\* after text.replace('\r', '')
ParseText(text) ==
    LET stanzas == Split(Strip(Replace(text, "\r", <<>>)), <<NL, NL>>, <<>>)
    IN [k \in 1..Len(stanzas) |->
           LET lines == Split(stanzas[k], <<NL>>, <<>>)
           IN [j \in 1..Len(lines) |-> Strip(lines[j])]]

\* normalized of reformatted(): Korean from the form's Korean, Translation from the
\* form's English
ParseForm(form) ==
    [lang \in {"Korean", "Translation"} |->
        ParseText(form[IF lang = "Translation" THEN "English" ELSE lang])]

\* the document process_lyrics writes
Document(final_title, stanzas) ==
    [name |-> OutputFilename(final_title), title |-> final_title,
     lyrics |-> Pad(stanzas), stanza_count |-> MaxStanzas(stanzas)]

\* open(output_path, 'w').write(prettified)
WriteFile(fs, doc) == {f \in fs : f.name # doc.name} \cup {doc}

\* raise ResponseException(400, 'Invalid site.')
InvalidSite == [NoResponse EXCEPT !.status = 400, !.view = "layout.html", !.message = "Invalid site."]

\* SITE_CLASS_MAPPING of __init__.py, the keys of FETCHERS
SiteNames == {"colorcodedlyrics", "klyrics", "lyricstranslate", "file", "musixmatch"}

----------------------------------------------------------------------------
(* The sources: what a fetcher's get_lyrics hands over, and what a site implements *)

\* what a source holds for an endpoint: kind is "ok" or the exception its request
\* ends with; lyrics and title are the dict get_lyrics builds from the page
Page(kind, lyrics, title) == [kind |-> kind, lyrics |-> lyrics, title |-> title]

NoPage == Page("none", EmptyMap, NoneVal)

\* what get_lyrics did: the exception it ended with or "ok", the dict it returned
\* (the languages' lines and the 'title' entry), and the endpoints it requested
Got(kind, lyrics, title, requested) ==
    [kind |-> kind, lyrics |-> lyrics, title |-> title, requested |-> requested]

NoBundle == Got("none", EmptyMap, NoneVal, <<>>)

\* get_lyrics of a single-site fetcher: one request
GetLyrics(endpoint, page) ==
    IF page.kind = "ok" THEN Got("ok", page.lyrics, page.title, <<endpoint>>)
    ELSE Got(page.kind, EmptyMap, NoneVal, <<endpoint>>)

\* LyricFetcher.get_korean_lyrics: lyrics['Korean'], lyrics['title']
GetKoreanLyrics(page) == <<page.lyrics["Korean"], page.title>>

\* LyricFetcher.get_english_translation: lyrics['English'], lyrics['title']
GetEnglishTranslation(page) == <<page.lyrics["English"], page.title>>

\* mutant: the title of the English source preferred to that of the Korean source
HybridGetLyricsEnglishTitleFirst(title, kor_endpoint, eng_endpoint, kor, eng) ==
    IF kor.kind # "ok" THEN Got(kor.kind, EmptyMap, NoneVal, <<kor_endpoint>>)
    ELSE IF eng.kind # "ok" THEN Got(eng.kind, EmptyMap, NoneVal, <<kor_endpoint, eng_endpoint>>)
    ELSE Got("ok", [lang \in {"Korean", "English"} |->
                       IF lang = "Korean" THEN kor.lyrics["Korean"] ELSE eng.lyrics["English"]],
             Or(title, Or(eng.title, kor.title)), <<kor_endpoint, eng_endpoint>>)

\* mutant: a failure of the English source swallowed, the translation left empty
HybridGetLyricsPartial(title, kor_endpoint, eng_endpoint, kor, eng) ==
    IF kor.kind # "ok" THEN Got(kor.kind, EmptyMap, NoneVal, <<kor_endpoint>>)
    ELSE Got("ok", [lang \in {"Korean", "English"} |->
                       IF lang = "Korean" THEN kor.lyrics["Korean"]
                       ELSE IF eng.kind = "ok" THEN eng.lyrics["English"] ELSE <<>>],
             Or(title, Or(kor.title, eng.title)), <<kor_endpoint, eng_endpoint>>)

\* HybridLyricFetcher.get_lyrics: the Korean source is asked first, then the English
\* one; an exception of either source is not caught
HybridGetLyrics(title, kor_endpoint, eng_endpoint, kor, eng) ==
    IF kor.kind # "ok" THEN Got(kor.kind, EmptyMap, NoneVal, <<kor_endpoint>>)
    ELSE IF eng.kind # "ok" THEN Got(eng.kind, EmptyMap, NoneVal, <<kor_endpoint, eng_endpoint>>)
    ELSE LET kor_lyrics == GetKoreanLyrics(kor)[1]
             kor_title  == GetKoreanLyrics(kor)[2]
             eng_lyrics == GetEnglishTranslation(eng)[1]
             eng_title  == GetEnglishTranslation(eng)[2]
         IN Got("ok", [lang \in {"Korean", "English"} |->
                          IF lang = "Korean" THEN kor_lyrics ELSE eng_lyrics],
                Or(title, Or(kor_title, eng_title)), <<kor_endpoint, eng_endpoint>>)

\* mutant: blank lines of the file dropped instead of turned into markers
TextFileGetLyricsDropsBlank(content, title) ==
    Page("ok", [lang \in {"Korean", "English"} |->
                   SelectSeq([k \in 1..Len(content) |-> Str(Strip(Text(content[k])))],
                             LAMBDA line : Text(line) # <<>>)], title)

\* TextFileLyricFetcher.get_lyrics: lines = [line.strip() or '<br/>' for line in
\* content], handed over for both languages, with the title it was called with
TextFileGetLyrics(content, title) ==
    Page("ok", [lang \in {"Korean", "English"} |->
                   [k \in 1..Len(content) |-> Str(Or(Strip(Text(content[k])), BR))]], title)

\* mutant: a row with one part leaves the English sequence as it is
AddRowKoreanOnly(lyrics, row) ==
    [lang \in {"Korean", "English"} |->
        IF lang = "Korean"
        THEN lyrics[lang] \o (IF Len(row) >= 1 THEN <<Str(Or(row[1], BR))>> ELSE <<>>)
        ELSE lyrics[lang] \o (IF Len(row) >= 2 THEN <<Str(Or(row[2], BR))>> ELSE <<>>)]

\* one turn of the row loop of MusixMatchLyricFetcher.get_lyrics: the parts go to
\* lang_names[0], lang_names[1] (text = div.get_text() or '<br/>'); then, if
\* last_i == 0 and the two lengths differ, '<br/>' is appended to English.  A third
\* part raises KeyError after the first two were appended.
AddRow(lyrics, row) ==
    LET korean  == lyrics["Korean"] \o (IF Len(row) >= 1 THEN <<Str(Or(row[1], BR))>> ELSE <<>>)
        english == lyrics["English"] \o (IF Len(row) >= 2 THEN <<Str(Or(row[2], BR))>> ELSE <<>>)
        last_i  == Len(row) - 1
    IN [lang \in {"Korean", "English"} |->
           IF lang = "Korean" THEN korean
           ELSE IF last_i = 0 /\ Len(korean) # Len(english) THEN Append(english, Str(BR))
           ELSE english]

\* the sites whose fetcher has a get_lyrics of its own
ImplementsLyrics == {"colorcodedlyrics", "klyrics", "file", "musixmatch"}

\* the sites whose fetcher sets _search_result_tag and _search_result_class, or has
\* a get_search_results of its own
ImplementsSearch == {"colorcodedlyrics", "klyrics", "lyricstranslate", "musixmatch"}

\* the sites whose fetcher has a get_index_results of its own
ImplementsIndex == {"colorcodedlyrics", "musixmatch"}

\* DEFAULT_SITE of routes.py
DefaultSite == "colorcodedlyrics"

\* the answer to a request whose handler ended with an exception nothing catches
ServerError == [NoResponse EXCEPT !.status = 500]

\* raise ResponseException(501, str(e))
NotImplementedResponse == [NoResponse EXCEPT !.status = 501, !.view = "layout.html",
                                              !.message = "not implemented"]

\* render_template('search.html', **render_vars), with render_vars['error'] if any
SearchPage(message) == [NoResponse EXCEPT !.status = 200, !.view = "search.html",
                                           !.message = message]

----------------------------------------------------------------------------
(* The page cache: the keys of utils.py and the cached requests of base.py *)

\* most days the clock goes through
MaxDays == 2
\* most entries the cache directory comes to hold
MaxEntries == 2

\* RequestsClient.host of a site's fetcher
Host(site) ==
    IF site = "lyricstranslate" THEN <<"l", "t">>
    ELSE IF site = "musixmatch" THEN <<"m", "x">>
    ELSE IF site = "klyrics" THEN <<"k", "l">>
    ELSE <<"c", "c">>

\* datetime.now().strftime('%Y-%m-%d'), for the days of one month
DateStr(day) == <<"2", "0", "2", "0", "-", "0", "1", "-", "0", <<"1", "2", "3">>[day]>>

RECURSIVE UrlQuote(_)
\* urllib.parse.quote(s, ''): no character is safe but letters, digits and '_.-~'
UrlQuote(s) ==
    IF s = <<>> THEN <<>>
    ELSE (IF Head(s) = "/" THEN <<"%", "2", "F">>
          ELSE IF Head(s) = " " THEN <<"%", "2", "0">>
          ELSE IF Head(s) = "%" THEN <<"%", "2", "5">>
          ELSE <<Head(s)>>) \o UrlQuote(Tail(s))

\* utils.dated_html_key(fetcher, endpoint, *args, **kwargs): endpoint is the first
\* positional argument of the cached method; the others are not looked at
DatedHtmlKey(host, day, endpoint) == Join(<<"_", "_">>, <<host, DateStr(day), UrlQuote(endpoint)>>)

\* the order of the one-character strings that parameter names are made of
Alphabet == <<"1", "2", "a", "b">>
Rank(c) == CHOOSE i \in 1..Len(Alphabet) : Alphabet[i] = c

RECURSIVE Insert(_, _)
Insert(sorted, item) ==
    IF sorted = <<>> THEN <<item>>
    ELSE IF Rank(item[1]) < Rank(Head(sorted)[1]) THEN <<item>> \o sorted
    ELSE <<Head(sorted)>> \o Insert(Tail(sorted), item)

RECURSIVE SortedItems(_)
\* sorted(value.items()): a dict is its (name, value) pairs in insertion order
SortedItems(items) ==
    IF items = <<>> THEN <<>> ELSE Insert(SortedItems(SubSeq(items, 1, Len(items) - 1)), items[Len(items)])

\* urlencode(pairs, True)
UrlEncode(pairs) == Join(<<"&">>, [k \in 1..Len(pairs) |-> <<pairs[k][1], "=", pairs[k][2]>>])

\* the keyword arguments of a request: params, data and json, each a dict (empty
\* when it was not given)
Kwargs(params, data, json) == [params |-> params, data |-> data, json |-> json]

\* the extras dict of html_key, as json.dumps(extras, sort_keys=True) goes through
\* it: 'data', 'json', 'query'; a falsy value adds no entry
Extras(kwargs) ==
    (IF kwargs.data # <<>> THEN <<<<"data", UrlEncode(SortedItems(kwargs.data))>>>> ELSE <<>>)
    \o (IF kwargs.json # <<>> THEN <<<<"json", UrlEncode(SortedItems(kwargs.json))>>>> ELSE <<>>)
    \o (IF kwargs.params # <<>> THEN <<<<"query", UrlEncode(SortedItems(kwargs.params))>>>> ELSE <<>>)

\* json.dumps(extras, sort_keys=True)
JsonDumps(extras) ==
    <<"{">> \o Join(<<",", " ">>, [k \in 1..Len(extras) |->
                       <<"\"", extras[k][1], "\"", ":", " ", "\"">> \o extras[k][2] \o <<"\"">>])
           \o <<"}">>

\* sha256(...).hexdigest(), taken to be free of collisions: the digest stands for
\* the text it was computed from
Sha256(text) == <<"#">> \o text

\* utils.html_key(fetcher, endpoint, *args, **kwargs)
HtmlKey(host, endpoint, kwargs) ==
    LET key_parts == <<host, Replace(endpoint, "/", <<"_">>)>>
        extras == Extras(kwargs)
    IN Join(<<"_", "_">>,
            IF extras # <<>> THEN Append(key_parts, Sha256(JsonDumps(extras))) ELSE key_parts)

\* LyricFetcher.search_path_and_params, and what the sites make of it
SearchPathAndParams(site, query_0, query_1) ==
    IF site = "lyricstranslate"
    THEN <<<<"t", "/">> \o query_0 \o <<"/">> \o (IF query_1 = NoneVal THEN <<"none">> ELSE query_1),
           <<>>>>
    ELSE IF site = "musixmatch"
    THEN <<<<"s", "/">> \o query_0, <<>>>>
    ELSE <<<<"/">>, <<<<"s", query_0>>>>>>

\* self.get(path, **kwargs).text: the page is what the site holds that day for the
\* path and the parameters, whatever the order they were written in
Fetched(site, path, kwargs, day) ==
    [site |-> site, path |-> path,
     params |-> {kwargs.params[k] : k \in DOMAIN kwargs.params},
     data |-> {kwargs.data[k] : k \in DOMAIN kwargs.data},
     json |-> {kwargs.json[k] : k \in DOMAIN kwargs.json}, day |-> day]

NoFetched == [site |-> "none", path |-> <<>>, params |-> {}, data |-> {}, json |-> {}, day |-> 0]

\* a cached call: the method, its arguments, the day, the key computed, whether the
\* cache answered, the page returned and the page the site would have given
Served(prefix, site, args, day, key, hit, page, wanted) ==
    [prefix |-> prefix, site |-> site, args |-> args, day |-> day, key |-> key,
     hit |-> hit, page |-> page, wanted |-> wanted]

NoServed == Served("none", "none", <<>>, 0, <<>>, FALSE, NoFetched, NoFetched)

\* @cached(FSCache(prefix=...), key=...): the stored page when the directory holds the
\* key, else the method's result, which is stored (call records the call that
\* stored the entry)
Cached(prefix, site, args, key, wanted) ==
    LET held == {e \in cache : e.prefix = prefix /\ e.key = key} IN
    IF held # {}
    THEN /\ served' = Served(prefix, site, args, today, key, TRUE, (CHOOSE e \in held : TRUE).page, wanted)
         /\ UNCHANGED cache
    ELSE /\ Cardinality(cache) < MaxEntries
         /\ served' = Served(prefix, site, args, today, key, FALSE, wanted, wanted)
         /\ cache' = cache \cup {[prefix |-> prefix, key |-> key, page |-> wanted,
                                   call |-> [site |-> site, args |-> args, day |-> today]]}

----------------------------------------------------------------------------
(* The requests the model explores *)

A == <<"A">>
PaddedB == <<" ", "B", " ">>
Blank == <<" ">>
PaddedBR == <<" ">> \o BR

\* text lines: content, content to trim, a blank line, the sentinel, the sentinel to trim
TextLines == {Str(A), Str(PaddedB), Str(Blank), Str(BR), Str(PaddedBR)}

\* extra trailing lines, and the lines of the requests that vary every language at once
PlainLines == {Str(A), Str(BR)}

\* lines of a source that hands over pre-built stanzas
BuiltLines == {Lst(<<>>), Lst(<<A>>), Str(A)}

SeqsUpTo(S, n) == UNION {[1..k -> S] : k \in 0..n}

SetsUpTo(S, n) == {x \in SUBSET S : Cardinality(x) <= n}

\* forced-break indices: negative ones count from the end of the scraped lines
BreakIndices == (0 - MaxLen)..MaxLen

Titles == {NoneVal, <<"T", " ", "?">>}
DiscoveredTitles == {NoneVal, <<"D">>}
SongEndpoint == <<"s", "/", "1">>

Bilingual == {"Korean", "English"}
Trilingual == {"Korean", "English", "Romanized"}

\* one language in detail (every line kind, forced breaks, extra lines, the replace
\* flag) beside a one-stanza translation
DetailRequest ==
    /\ entry \in {"normalize", "legacy"}
    /\ \E lines \in SeqsUpTo(TextLines, MaxLen) :
          lang_lyrics_map = [lang \in Bilingual |-> IF lang = "Korean" THEN lines ELSE <<Str(A)>>]
    /\ \E lb \in SetsUpTo(BreakIndices, MaxBreaks) : add_linebreaks = [lang \in {"Korean"} |-> lb]
    /\ \E extra \in SeqsUpTo(PlainLines, MaxExtra) : add_lines = [lang \in {"Korean"} |-> extra]
    /\ replace_lb \in BOOLEAN

\* two or three languages varied together, no overrides, through every entry point
AlignRequest ==
    /\ \E langs \in {Bilingual, Trilingual} :
          /\ lang_lyrics_map \in [langs -> SeqsUpTo(PlainLines, MaxLen)]
          /\ entry \in IF langs = Bilingual
                       THEN {"normalize", "legacy", "process_lyrics", "song"}
                       ELSE {"normalize", "legacy"}
    /\ add_linebreaks = EmptyMap
    /\ add_lines = EmptyMap
    /\ replace_lb = FALSE

\* a source that hands over pre-built stanzas (processor.LyricStanzas)
BuiltRequest ==
    /\ entry = "normalize"
    /\ lang_lyrics_map \in [Bilingual -> SeqsUpTo(BuiltLines, MaxLen - 1)]
    /\ add_linebreaks = EmptyMap
    /\ add_lines = EmptyMap
    /\ replace_lb = FALSE

Br == "<br/>"

\* Line Sequences of the written scenarios; a word stands for its characters, and
\* the sentinel is spelled out
Lines(ws) == [k \in 1..Len(ws) |-> IF ws[k] = Br THEN Str(BR) ELSE Str(<<ws[k]>>)]

\* the written scenarios: [lyrics, linebreaks]
Scenarios ==
    { <<[lang \in Bilingual |-> Lines(<<"Hello", Br, "World", Br, "Foo">>)], EmptyMap>>,
      <<[lang \in Bilingual |-> Lines(<<"A", "B", "C", "D">>)], [lang \in Bilingual |-> {2}]>>,
      <<[lang \in Bilingual |-> Lines(<<"A", "B", "C", "D", "E">>)], [lang \in Bilingual |-> {-1}]>>,
      <<[lang \in Bilingual |-> IF lang = "Korean"
                                THEN Lines(<<"A", "B", Br, "C">>)
                                ELSE Lines(<<"A", Br, "B", "C", Br, "D">>)], EmptyMap>> }

\* the web routes take no overrides
ScenarioRequest ==
    /\ entry \in {"normalize", "legacy", "process_lyrics", "song"}
    /\ \E sc \in Scenarios :
          /\ lang_lyrics_map = sc[1]
          /\ add_linebreaks = sc[2]
          /\ entry = "song" => sc[2] = EmptyMap
    /\ add_lines = EmptyMap
    /\ replace_lb = FALSE

\* the options of a request; an option that was not given is None
NoCommand ==
    [site |-> "none", kor_site |-> "none", eng_site |-> "none", title |-> NoneVal,
     songs |-> <<>>, output_ok |-> TRUE, ignore_len |-> FALSE, query |-> NoneVal, index |-> FALSE]

NoSources == [kor |-> NoPage, eng |-> NoPage]

\* site names a request may carry: the registered ones, one that is not, and none
RequestSites == SiteNames \cup {"nosuch", "none"}

\* the requests above reach the normalizer directly or through one fetcher: the
\* song endpoint carries a site, process_lyrics an output directory
CoreOptions ==
    /\ command \in IF entry = "song" THEN {[NoCommand EXCEPT !.site = site] : site \in RequestSites}
                   ELSE IF entry = "process_lyrics"
                        THEN {[NoCommand EXCEPT !.output_ok = ok] : ok \in BOOLEAN}
                   ELSE {NoCommand}
    /\ sources = NoSources

\* the pages of the songs of a get command
SongPages == {<<"s", "/", "1">>, <<"s", "/", "2">>}

\* a song argument: its endpoint, and the title and the outcome of its page
SongArgs ==
    [endpoint : SongPages, title : {NoneVal, <<"D">>, <<"D", "?">>}, kind : {"ok", "FetchError"}]

\* the song arguments of a get command: one or more distinct endpoints
SongLists ==
    {songs \in UNION {[1..n -> SongArgs] : n \in 1..MaxSongs} :
        \A i, j \in DOMAIN songs : i # j => songs[i].endpoint # songs[j].endpoint}

\* fetch_lyrics.py get: every page holds the same two-stanza lyrics; the one set of
\* line breaks is given for both languages
GetRequest ==
    /\ entry = "get"
    /\ lang_lyrics_map = [lang \in Bilingual |-> Lines(<<"Hello", Br, "World">>)]
    /\ \E lb \in {{}, {1}, {-2}} : add_linebreaks = [lang \in Bilingual |-> lb]
    /\ add_lines = EmptyMap
    /\ replace_lb = FALSE
    /\ \E site \in {DefaultSite, "nosuch"}, title \in {NoneVal, <<"T">>},
          songs \in SongLists, ok \in BOOLEAN :
          command = [NoCommand EXCEPT !.site = site, !.title = title,
                                      !.songs = songs, !.output_ok = ok]
    /\ sources = NoSources

\* the page of the Korean source and the page of the English source: each holds both
\* languages and a title of its own
KoreanPages ==
    {Page(kind, [lang \in Bilingual |-> IF lang = "Korean" THEN Lines(<<"k1", Br, "k2">>)
                                        ELSE Lines(<<"x">>)], title) :
        kind \in {"ok", "FetchError"}, title \in {NoneVal, <<"K">>}}

EnglishPages ==
    {Page(kind, [lang \in Bilingual |-> IF lang = "Korean" THEN Lines(<<"y">>) ELSE eng], title) :
        kind \in {"ok", "FetchError"}, title \in {NoneVal, <<>>, <<"E">>},
        eng \in {Lines(<<"e1", Br, "e2">>), Lines(<<"e1">>)}}

KoreanEndpoint == <<"k", "/", "1">>
EnglishEndpoint == <<"e", "/", "1">>

\* fetch_lyrics.py hybrid-get
HybridRequest ==
    /\ entry = "hybrid_get"
    /\ lang_lyrics_map = EmptyMap
    /\ add_linebreaks = [lang \in Bilingual |-> {}]
    /\ add_lines = [lang \in Bilingual |-> <<>>]
    /\ replace_lb = FALSE
    /\ \E kor \in KoreanPages, eng \in EnglishPages : sources = [kor |-> kor, eng |-> eng]
    /\ \E kor_site \in {DefaultSite, "nosuch"}, eng_site \in {"lyricstranslate", "nosuch"},
          title \in {NoneVal, <<"T">>}, ok \in BOOLEAN, ignore_len \in BOOLEAN :
          command = [NoCommand EXCEPT !.kor_site = kor_site, !.eng_site = eng_site, !.title = title,
                                      !.output_ok = ok, !.ignore_len = ignore_len]

\* the web search endpoint
SearchRequest ==
    /\ entry = "search"
    /\ lang_lyrics_map = EmptyMap
    /\ add_linebreaks = EmptyMap
    /\ add_lines = EmptyMap
    /\ replace_lb = FALSE
    /\ \E site \in RequestSites, query \in {NoneVal, <<"q">>}, index \in BOOLEAN :
          command = [NoCommand EXCEPT !.site = site, !.query = query, !.index = index]
    /\ sources = NoSources

\* most lines of a text file
MaxFileLines == 4

\* the lines of a text file, as splitlines() gives them: content, content to trim,
\* a line of spaces, an empty line, the sentinel written out
FileLines == {Str(A), Str(PaddedB), Str(Blank), Str(<<>>), Str(BR)}

\* a text file: what open(file_path).read().splitlines() gives
FileOf(content) == Page("ok", [name \in {"content"} |-> content], NoneVal)

\* fetch_lyrics.py file-get: a file of Korean lyrics and a file of the translation
FileRequest ==
    /\ entry = "file_get"
    /\ lang_lyrics_map = EmptyMap
    /\ add_linebreaks = [lang \in Bilingual |-> {}]
    /\ add_lines = [lang \in Bilingual |-> <<>>]
    /\ replace_lb = FALSE
    /\ \E kor \in SeqsUpTo(FileLines, MaxFileLines), eng \in {<<Str(A)>>, <<Str(A), Str(<<>>), Str(A)>>} :
          sources = [kor |-> FileOf(kor), eng |-> FileOf(eng)]
    /\ \E title \in {NoneVal, <<"T">>}, ignore_len \in BOOLEAN :
          command = [NoCommand EXCEPT !.kor_site = "file", !.eng_site = "file", !.title = title,
                                      !.ignore_len = ignore_len]

\* most rows of a track page, and most parts of a row
MaxRows == 3
MaxParts == 3

\* the text of a part of a row: a line, or nothing
PartTexts == {A, <<>>}

\* a track page of musixmatch: its 'mxm-translatable-line-readonly' rows, each the
\* texts of its parts
TrackOf(rows) == Page("ok", [name \in {"rows"} |-> rows], NoneVal)

\* MusixMatchLyricFetcher.get_lyrics on a track page
TrackRequest ==
    /\ entry = "musixmatch"
    /\ lang_lyrics_map = EmptyMap
    /\ add_linebreaks = EmptyMap
    /\ add_lines = EmptyMap
    /\ replace_lb = FALSE
    /\ \E rows \in SeqsUpTo(SeqsUpTo(PartTexts, MaxParts), MaxRows) :
          sources = [kor |-> TrackOf(rows), eng |-> NoPage]
    /\ command = [NoCommand EXCEPT !.site = "musixmatch"]

Init ==
    /\ \/ (DetailRequest \/ AlignRequest \/ BuiltRequest \/ ScenarioRequest) /\ CoreOptions
       \/ GetRequest
       \/ HybridRequest
       \/ FileRequest
       \/ TrackRequest
       \/ SearchRequest
    /\ bundle = NoBundle
    /\ position = 0
    /\ fetched = <<>>
    /\ today = 1
    /\ cache = {}
    /\ served = NoServed
    /\ line_breaks = EmptyMap
    /\ pc = "start"
    /\ calls = 0
    /\ result = NoResult
    /\ error = "none"
    /\ files = {}
    /\ response = NoResponse

Raised(outcome) == IF outcome.kind = "return" THEN "none" ELSE outcome.kind

\* LyricNormalizer(lang_lyrics_map, add_linebreaks, add_lines, replace_line_breaks)
New ==
    /\ pc = "start"
    /\ entry = "normalize"
    /\ line_breaks' = InitLineBreaks(add_linebreaks)
    /\ pc' = "constructed"
    /\ UNCHANGED <<entry, lang_lyrics_map, add_linebreaks, add_lines, replace_lb,
                   calls, result, error, files, response>>
    /\ UNCHANGED <<cliVars, fetched>>
    /\ UNCHANGED cacheVars

\* LyricNormalizer.normalize(ignore_len)
Normalize(ignore_len) ==
    /\ pc = "constructed"
    /\ calls < MaxCalls
    /\ result' = NormalizeOutcome(lang_lyrics_map, line_breaks, add_lines, replace_lb, ignore_len)
    /\ line_breaks' = LineBreaksAfter(lang_lyrics_map, line_breaks, replace_lb)
    /\ error' = Raised(result')
    /\ calls' = calls + 1
    /\ add_linebreaks' = CallerBreaksAfter(add_linebreaks, line_breaks')
    /\ UNCHANGED <<entry, lang_lyrics_map, add_lines, replace_lb, pc, files, response>>
    /\ UNCHANGED <<cliVars, fetched>>
    /\ UNCHANGED cacheVars

\* normalize_lyrics of __init__.py
LegacyNormalize(ignore_len) ==
    /\ pc = "start"
    /\ entry = "legacy"
    /\ result' = LegacyNormalizeLyrics(lang_lyrics_map, add_linebreaks, add_lines,
                                       replace_lb, ignore_len)
    /\ error' = Raised(result')
    /\ pc' = "done"
    /\ add_linebreaks' = CallerBreaksAfter(add_linebreaks,
                             LineBreaksAfter(lang_lyrics_map, InitLineBreaks(add_linebreaks), replace_lb))
    /\ UNCHANGED <<entry, lang_lyrics_map, add_lines, replace_lb,
                   line_breaks, calls, files, response>>
    /\ UNCHANGED <<cliVars, fetched>>
    /\ UNCHANGED cacheVars

\* process_lyrics from its get_lyrics call on (got is what the call does): the dict
\* is normalized, the document is rendered with self.song_tmpl (which only
\* LyricFetcher.__init__ sets), named and written
FetchAndWrite(got, legacy, title, song, ignore_len, templated) ==
    /\ bundle' = got
    /\ fetched' = fetched \o got.requested
    /\ IF got.kind # "ok"
       THEN /\ error' = got.kind
            /\ UNCHANGED <<result, files, add_linebreaks>>
       ELSE LET outcome == IF legacy
                           THEN LegacyNormalizeLyrics(got.lyrics, add_linebreaks, add_lines,
                                                      replace_lb, ignore_len)
                           ELSE NormalizeLyrics(got.lyrics, add_linebreaks, add_lines,
                                                replace_lb, ignore_len)
                final_title == Or(title, Or(got.title, song))
                written == outcome.kind = "return" /\ templated /\ final_title # NoneVal
            IN /\ result' = outcome
               /\ add_linebreaks' = CallerBreaksAfter(add_linebreaks,
                                        LineBreaksAfter(got.lyrics, InitLineBreaks(add_linebreaks),
                                                        replace_lb))
               /\ error' = IF outcome.kind # "return" THEN outcome.kind
                           ELSE IF written THEN "none" ELSE "AttributeError"
               /\ files' = IF written
                           THEN WriteFile(files, Document(final_title, RenameEnglish(outcome.stanzas)))
                           ELSE files

\* mutant: the output directory checked after get_lyrics
ProcessLyricsBodyFetchesFirst(got, legacy, title, song, ignore_len, templated) ==
    IF ~command.output_ok
    THEN /\ error' = "ValueError"
         /\ bundle' = got
         /\ fetched' = fetched \o got.requested
         /\ UNCHANGED <<result, files, add_linebreaks>>
    ELSE FetchAndWrite(got, legacy, title, song, ignore_len, templated)

\* the body of process_lyrics, which base.py and __init__.py share but for the
\* normalize_lyrics each calls: the output directory is checked before anything else
ProcessLyricsBody(got, legacy, title, song, ignore_len, templated) ==
    IF ~command.output_ok
    THEN /\ error' = "ValueError"
         /\ UNCHANGED <<result, files, bundle, fetched, add_linebreaks>>
    ELSE FetchAndWrite(got, legacy, title, song, ignore_len, templated)

\* LyricFetcher.process_lyrics (base.py) of a single-site fetcher; the page holds
\* lang_lyrics_map and the discovered title, unless its request fails
ProcessLyrics(title, discovered_title, ignore_len, fetch_ok) ==
    /\ pc = "start"
    /\ entry = "process_lyrics"
    /\ pc' = "done"
    /\ ProcessLyricsBody(GetLyrics(SongEndpoint, Page(IF fetch_ok THEN "ok" ELSE "FetchError",
                                                      lang_lyrics_map, discovered_title)),
                         FALSE, title, SongEndpoint, ignore_len, TRUE)
    /\ UNCHANGED <<entry, lang_lyrics_map, add_lines, replace_lb, line_breaks, calls, response>>
    /\ UNCHANGED <<command, sources, position>>
    /\ UNCHANGED cacheVars

\* request.args.get('site') or DEFAULT_SITE
RequestedSite == IF command.site = "none" THEN DefaultSite ELSE command.site

\* song() of routes.py
Song(alt_title, discovered_title, ignore_len, fetch_ok) ==
    /\ pc = "start"
    /\ entry = "song"
    /\ pc' = "done"
    /\ IF RequestedSite \notin SiteNames
       THEN /\ response' = InvalidSite
            /\ UNCHANGED <<result, error, bundle, fetched>>
       ELSE IF RequestedSite \notin ImplementsLyrics
       THEN /\ response' = ServerError
            /\ error' = "TypeError"
            /\ UNCHANGED <<result, bundle, fetched>>
       ELSE LET got == GetLyrics(SongEndpoint, Page(IF fetch_ok THEN "ok" ELSE "FetchError",
                                                    lang_lyrics_map, discovered_title))
                outcome == NormalizeLyrics(got.lyrics, EmptyMap, EmptyMap, FALSE, ignore_len)
                title == Or(alt_title, Or(got.title, SongEndpoint))
            IN /\ bundle' = got
               /\ fetched' = fetched \o got.requested
               /\ IF got.kind # "ok"
                  THEN /\ response' = ServerError
                       /\ error' = got.kind
                       /\ UNCHANGED result
                  ELSE /\ result' = outcome
                       /\ error' = "none"
                       /\ response' = IF outcome.kind = "StanzaMismatch"
                                      THEN RenderReformat(title, outcome.report)
                                      ELSE RenderSong(title, RenameEnglish(outcome.stanzas))
    /\ UNCHANGED <<entry, lang_lyrics_map, add_linebreaks, add_lines, replace_lb,
                   line_breaks, calls, files>>
    /\ UNCHANGED <<command, sources, position>>
    /\ UNCHANGED cacheVars

\* one turn of the loop of Get.main (fetch_lyrics.py): self.lyric_fetcher is looked
\* up, then process_lyrics of __init__.py runs for the next song; an exception ends
\* the command
GetSong ==
    /\ entry = "get"
    /\ pc \in {"start", "looping"}
    /\ IF command.site \notin SiteNames
       THEN /\ error' = "ValueError"
            /\ pc' = "done"
            /\ UNCHANGED <<result, files, bundle, fetched, position, add_linebreaks>>
       ELSE LET song == command.songs[position + 1] IN
            /\ ProcessLyricsBody(GetLyrics(song.endpoint, Page(song.kind, lang_lyrics_map, song.title)),
                                 TRUE, command.title, song.endpoint, command.ignore_len, TRUE)
            /\ position' = position + 1
            /\ pc' = IF error' = "none" /\ position' < Len(command.songs)
                     THEN "looping" ELSE "done"
    /\ UNCHANGED <<entry, lang_lyrics_map, add_lines, replace_lb, line_breaks, calls, response>>
    /\ UNCHANGED <<command, sources>>
    /\ UNCHANGED cacheVars

\* hybrid_get (fetch_lyrics.py): both fetchers are looked up, then process_lyrics of
\* the HybridLyricFetcher runs with no song
HybridGet ==
    /\ entry = "hybrid_get"
    /\ pc = "start"
    /\ pc' = "done"
    /\ IF command.kor_site \notin SiteNames \/ command.eng_site \notin SiteNames
       THEN /\ error' = "ValueError"
            /\ UNCHANGED <<result, files, bundle, fetched, add_linebreaks>>
       ELSE ProcessLyricsBody(HybridGetLyrics(command.title, KoreanEndpoint, EnglishEndpoint,
                                              sources.kor, sources.eng),
                              TRUE, command.title, NoneVal, command.ignore_len, FALSE)
    /\ UNCHANGED <<entry, lang_lyrics_map, add_lines, replace_lb, line_breaks, calls, response>>
    /\ UNCHANGED <<command, sources, position>>
    /\ UNCHANGED cacheVars

KoreanFile == <<"k", ".", "t", "x", "t">>
EnglishFile == <<"e", ".", "t", "x", "t">>

\* hybrid_get for two text files (FileGet.main of fetch_lyrics.py, which runs the
\* classes of __init__.py: legacy; the classes of base.py otherwise): each
\* TextFileLyricFetcher is asked without a title
FileGet(legacy) ==
    /\ entry = "file_get"
    /\ pc = "start"
    /\ pc' = "done"
    /\ ProcessLyricsBody(HybridGetLyrics(command.title, KoreanFile, EnglishFile,
                                         TextFileGetLyrics(sources.kor.lyrics["content"], NoneVal),
                                         TextFileGetLyrics(sources.eng.lyrics["content"], NoneVal)),
                         legacy, command.title, NoneVal, command.ignore_len, FALSE)
    /\ UNCHANGED <<entry, lang_lyrics_map, add_lines, replace_lb, line_breaks, calls, response>>
    /\ UNCHANGED <<command, sources, position>>
    /\ UNCHANGED cacheVars

\* the rows of the track page
TrackRows == sources.kor.lyrics["rows"]

\* one row of the loop of MusixMatchLyricFetcher.get_lyrics, which starts from
\* {'Korean': [], 'English': []}; the lyrics are returned after the last row
TrackRow ==
    /\ entry = "musixmatch"
    /\ pc \in {"start", "looping"}
    /\ position < Len(TrackRows)
    /\ LET lyrics == IF pc = "start" THEN [lang \in Bilingual |-> <<>>] ELSE bundle.lyrics
           row == TrackRows[position + 1]
           raised == Len(row) > 2
           last == position + 1 = Len(TrackRows)
       IN /\ bundle' = Got(IF raised THEN "KeyError" ELSE IF last THEN "ok" ELSE "building",
                           AddRow(lyrics, row), NoneVal, <<>>)
          /\ error' = IF raised THEN "KeyError" ELSE "none"
          /\ pc' = IF raised \/ last THEN "done" ELSE "looping"
    /\ position' = position + 1
    /\ UNCHANGED <<entry, lang_lyrics_map, add_linebreaks, add_lines, replace_lb,
                   line_breaks, calls, result, files, response>>
    /\ UNCHANGED <<command, sources, fetched, cacheVars>>

\* what the site's page gives a search or an index request
SearchOutcomes == {"results", "empty", "FetchError", "ValueError"}

\* search() of routes.py, for a GET request
Search(outcome) ==
    /\ entry = "search"
    /\ pc = "start"
    /\ pc' = "done"
    /\ outcome = "ValueError" => command.index /\ RequestedSite = "colorcodedlyrics"
    /\ IF ~Truthy(command.query)
       THEN /\ response' = SearchPage("You must provide a valid query.")
            /\ UNCHANGED <<error, fetched>>
       ELSE IF RequestedSite \notin SiteNames
       THEN /\ response' = SearchPage("Invalid site.")
            /\ UNCHANGED <<error, fetched>>
       ELSE IF command.index /\ RequestedSite \notin ImplementsIndex
       THEN /\ response' = NotImplementedResponse
            /\ UNCHANGED <<error, fetched>>
       ELSE IF ~command.index /\ RequestedSite \notin ImplementsSearch
       THEN /\ response' = ServerError
            /\ error' = "TypeError"
            /\ UNCHANGED fetched
       ELSE IF outcome = "ValueError"
       THEN /\ response' = ServerError
            /\ error' = "ValueError"
            /\ UNCHANGED fetched
       ELSE /\ fetched' = Append(fetched, command.query)
            /\ error' = IF outcome = "FetchError" THEN "FetchError" ELSE "none"
            /\ response' = IF outcome = "FetchError" THEN ServerError
                           ELSE IF outcome = "empty" THEN SearchPage("No results.")
                           ELSE SearchPage("none")
    /\ UNCHANGED <<entry, lang_lyrics_map, add_linebreaks, add_lines, replace_lb,
                   line_breaks, calls, result, files>>
    /\ UNCHANGED cliVars
    /\ UNCHANGED cacheVars

\* reformatted() of routes.py: the text of the reformat view is posted back as it
\* was shown
Reformatted ==
    /\ entry = "song"
    /\ pc = "done"
    /\ response.view = "reformat.html"
    /\ pc' = "reformatted"
    /\ response' = RenderSong(response.title, ParseForm(response.text))
    /\ UNCHANGED <<entry, lang_lyrics_map, add_linebreaks, add_lines, replace_lb,
                   line_breaks, calls, result, error, files>>
    /\ UNCHANGED <<cliVars, fetched, cacheVars>>

Next ==
    \/ New
    \/ \E ignore_len \in BOOLEAN : Normalize(ignore_len)
    \/ \E ignore_len \in BOOLEAN : LegacyNormalize(ignore_len)
    \/ \E title \in Titles, discovered_title \in DiscoveredTitles,
          ignore_len \in BOOLEAN, fetch_ok \in BOOLEAN :
          ProcessLyrics(title, discovered_title, ignore_len, fetch_ok)
    \/ \E alt_title \in Titles, discovered_title \in DiscoveredTitles,
          ignore_len \in BOOLEAN, fetch_ok \in BOOLEAN :
          Song(alt_title, discovered_title, ignore_len, fetch_ok)
    \/ GetSong
    \/ HybridGet
    \/ \E legacy \in BOOLEAN : FileGet(legacy)
    \/ TrackRow
    \/ \E outcome \in SearchOutcomes : Search(outcome)
    \/ Reformatted

Spec == Init /\ [][Next]_vars

----------------------------------------------------------------------------
(* The cached requests of a fetcher, over days *)

\* the sites asked, the queries and the sub-queries of a search
CacheSites == {"lyricstranslate", "klyrics"}
Queries == {<<"q">>}
SubQueries == {NoneVal, <<"s", "1">>, <<"s", "2">>}

\* the endpoints of direct page fetches
Endpoints == {<<"a", "/", "b">>, <<"a", "_", "b">>}

\* the dicts given as params: none, one entry, the same two entries written in
\* either order
ParamDicts ==
    { <<>>, <<<<"a", "1">>>>, <<<<"a", "2">>>>,
      <<<<"a", "1">>, <<"b", "1">>>>, <<<<"b", "1">>, <<"a", "1">>>> }

DataDicts == { <<>>, <<<<"a", "1">>>> }

\* a fetcher at work: no song is being processed
CacheInit ==
    /\ entry = "cache"
    /\ lang_lyrics_map = EmptyMap
    /\ add_linebreaks = EmptyMap
    /\ add_lines = EmptyMap
    /\ replace_lb = FALSE
    /\ line_breaks = EmptyMap
    /\ pc = "start"
    /\ calls = 0
    /\ result = NoResult
    /\ error = "none"
    /\ files = {}
    /\ response = NoResponse
    /\ command = NoCommand
    /\ sources = NoSources
    /\ bundle = NoBundle
    /\ position = 0
    /\ fetched = <<>>
    /\ today \in 1..MaxDays
    /\ cache = {}
    /\ served = NoServed

\* LyricFetcher._search(query_0, query_1), behind its cache
SearchCached(site, query_0, query_1) ==
    /\ entry = "cache"
    /\ LET request == SearchPathAndParams(site, query_0, query_1) IN
       Cached("search__", site, <<query_0, query_1>>,
              DatedHtmlKey(Host(site), today, query_0),
              Fetched(site, request[1], Kwargs(request[2], <<>>, <<>>), today))
    /\ UNCHANGED <<coreVars, cliVars, fetched, today>>

\* LyricFetcher.get_page(endpoint, **kwargs), behind its cache
GetPage(site, endpoint, kwargs) ==
    /\ entry = "cache"
    /\ Cached("get__", site, <<endpoint, kwargs>>,
              HtmlKey(Host(site), endpoint, kwargs),
              Fetched(site, endpoint, kwargs, today))
    /\ UNCHANGED <<coreVars, cliVars, fetched, today>>

\* midnight
NextDay ==
    /\ entry = "cache"
    /\ today < MaxDays
    /\ today' = today + 1
    /\ UNCHANGED <<coreVars, cliVars, fetched, cache, served>>

CacheNext ==
    \/ \E site \in CacheSites, query_0 \in Queries, query_1 \in SubQueries :
          SearchCached(site, query_0, query_1)
    \/ \E site \in CacheSites, endpoint \in Endpoints, params \in ParamDicts, data \in DataDicts :
          GetPage(site, endpoint, Kwargs(params, data, <<>>))
    \/ NextDay

CacheSpec == CacheInit /\ [][CacheNext]_vars

----------------------------------------------------------------------------
(* Vocabulary of the claims *)

\* a normalization has run
Normalized == result.kind # "none"

\* the request went through LyricNormalizer (utils.py)
UsesNormalizer == entry \in {"normalize", "process_lyrics", "song"}

Languages == DOMAIN lang_lyrics_map

BreaksOf(lang) == Get(add_linebreaks, lang, {})
ExtraOf(lang) == Get(add_lines, lang, <<>>)

\* every line of the language is a text
AllText(lines) == \A k \in 1..Len(lines) : ~lines[k].list

\* the number of stanzas differs between two of the languages
CountsDiffer(stanzas) ==
    \E a, b \in DOMAIN stanzas : Len(stanzas[a]) # Len(stanzas[b])

\* the largest number of lines of any single stanza of any language
LargestStanza(stanzas) ==
    Max({0} \cup UNION {{Len(stanzas[lang][k]) : k \in 1..Len(stanzas[lang])} :
                            lang \in DOMAIN stanzas})

----------------------------------------------------------------------------
(* C1..C4: the alignment check *)

RECURSIVE SumRows(_)
\* the text rows the stanzas take: a stanza takes one row per line, and one (empty)
\* row when it has no line
SumRows(stanzas) ==
    IF stanzas = <<>> THEN 0
    ELSE (IF Head(stanzas) = <<>> THEN 1 ELSE Len(Head(stanzas))) + SumRows(Tail(stanzas))

\* the rows of a language's joined text: those of its stanzas and one blank row
\* between two consecutive stanzas
TextRows(stanzas) == IF stanzas = <<>> THEN 1 ELSE SumRows(stanzas) + Len(stanzas) - 1

C3_AlignsAnyNumberOfLanguages ==
    (UsesNormalizer /\ Normalized /\ Cardinality(Languages) >= 2)
        => IF CountsDiffer(result.stanzas)
           THEN ~result.ignore_len => result.kind = "StanzaMismatch"
           ELSE result.kind = "return"

\* C4 (as claimed): with ignore_len true and stanza counts that differ, normalize
\* returns the stanzas it built, whatever the number of languages.
C4_ToleratedMismatchReturns ==
    (UsesNormalizer /\ Normalized /\ result.ignore_len /\ CountsDiffer(result.stanzas))
        => result.kind = "return"

----------------------------------------------------------------------------
(* C5..C10: the stanzas of one language *)

LinesOf(lang) == lang_lyrics_map[lang]

\* no forced breaks, no extra lines, break markers kept
NoOverrides(lang) == BreaksOf(lang) = {} /\ ExtraOf(lang) = <<>> /\ ~replace_lb

\* the texts of the lines, each trimmed
Trimmed(lines) == [k \in 1..Len(lines) |-> Strip(Text(lines[k]))]

\* the trimmed lines that are not blank
NonBlank(lines) == SelectSeq(Trimmed(lines), LAMBDA t : t # <<>>)

\* the trimmed lines that are neither blank nor a break marker
Contents(lines) == SelectSeq(Trimmed(lines), LAMBDA t : t # <<>> /\ t # BR)

NoMarkers(lines) == \A k \in 1..Len(lines) : Trimmed(lines)[k] # BR
NoBlanks(lines) == \A k \in 1..Len(lines) : Trimmed(lines)[k] # <<>>

\* the k-th smallest element of a set of numbers
Nth(S, k) == CHOOSE x \in S : Cardinality({y \in S : y < x}) = k - 1

\* positions of w where a run of lines that are not markers begins, and where the
\* run that begins at i ends
RunStarts(w) == {i \in 1..Len(w) : w[i] # BR /\ (i = 1 \/ w[i - 1] = BR)}
RunEnd(w, i) ==
    CHOOSE j \in i..Len(w) : (\A m \in i..j : w[m] # BR) /\ (j = Len(w) \/ w[j + 1] = BR)

\* the maximal runs of consecutive lines of w that are not markers, in order
MaximalRuns(w) ==
    [k \in 1..Cardinality(RunStarts(w)) |->
        SubSeq(w, Nth(RunStarts(w), k), RunEnd(w, Nth(RunStarts(w), k)))]

RECURSIVE Flatten(_)
\* the stanzas, concatenated in order
Flatten(stanzas) == IF stanzas = <<>> THEN <<>> ELSE Head(stanzas) \o Flatten(Tail(stanzas))

\* the length forced-break indices count against: that of the scraped lines, less
\* the lines that are the sentinel when the replace flag is set
CountedLen(lines, replace) ==
    IF replace THEN Cardinality({k \in 1..Len(lines) : lines[k] # Str(BR)}) ELSE Len(lines)

\* C5: with no overrides the stanzas of a language of text lines are the maximal
\* runs of content lines between break markers (a line is a marker when its trimmed
\* text is the sentinel), in order, each line trimmed; blank lines are dropped first
\* and delimit nothing.
C5_StanzasAreMaximalRuns ==
    \A lang \in Languages :
        (UsesNormalizer /\ Normalized /\ AllText(LinesOf(lang)) /\ NoOverrides(lang))
            => result.stanzas[lang] = MaximalRuns(NonBlank(LinesOf(lang)))

\* C5 witness: the written scenario, and a blank line inside a stanza
C5_Witness ==
    /\ entry = "normalize" /\ Normalized /\ NoOverrides("Korean")
    /\ LinesOf("Korean") = Lines(<<"Hello", Br, "World", Br, "Foo">>)
    /\ result.stanzas["Korean"] = << << <<"Hello">> >>, << <<"World">> >>, << <<"Foo">> >> >>

\* C6 (as claimed): text lines without markers and without overrides give exactly
\* one stanza, which holds all non-blank trimmed lines.
C6_ExactlyOneStanza ==
    \A lang \in Languages :
        (/\ UsesNormalizer /\ Normalized /\ AllText(LinesOf(lang))
         /\ NoMarkers(LinesOf(lang)) /\ NoOverrides(lang))
            => result.stanzas[lang] = <<NonBlank(LinesOf(lang))>>

\* C6 (amended): text lines without markers and without overrides give one stanza
\* holding all non-blank trimmed lines when there is such a line, and no stanza
\* when every line is blank or there is no line.
C6_OneStanzaUnlessEmpty ==
    \A lang \in Languages :
        (/\ UsesNormalizer /\ Normalized /\ AllText(LinesOf(lang))
         /\ NoMarkers(LinesOf(lang)) /\ NoOverrides(lang))
            => result.stanzas[lang] = IF NonBlank(LinesOf(lang)) = <<>>
                                      THEN <<>>
                                      ELSE <<NonBlank(LinesOf(lang))>>

\* C6 witness: a blank line between two content lines, one of them trimmed, gives
\* the one stanza of the two
C6_Witness ==
    /\ entry = "normalize" /\ Normalized /\ NoOverrides("Korean")
    /\ LinesOf("Korean") = <<Str(A), Str(Blank), Str(PaddedB)>>
    /\ result.stanzas["Korean"] = << <<A, <<"B">> >> >>

\* C7 (as claimed): no stanza the normalizer emits is empty, whatever the line
\* sequence and the overrides.
C7_NoEmptyStanza ==
    \A lang \in Languages :
        (UsesNormalizer /\ Normalized)
            => \A k \in 1..Len(result.stanzas[lang]) : result.stanzas[lang][k] # <<>>

\* C8 (as claimed): for text lines, the stanzas concatenated are the scraped lines
\* followed by the extra lines, trimmed, without blank lines and markers, for the
\* normalizer object and for the list-based normalize_lyrics alike.
C8_ConcatenationIsContents ==
    \A lang \in Languages :
        (Normalized /\ AllText(LinesOf(lang)))
            => Flatten(result.stanzas[lang]) = Contents(LinesOf(lang) \o ExtraOf(lang))

\* C9: n non-blank text lines without markers, no extra lines, and the one forced
\* break i with 0 < i < n give two stanzas, the (trimmed) lines before position i and
\* those from position i on.
C9_ForcedBreakSplitsInTwo ==
    \A lang \in Languages :
        \A i \in 1..(Len(LinesOf(lang)) - 1) :
            (/\ UsesNormalizer /\ Normalized /\ AllText(LinesOf(lang))
             /\ NoMarkers(LinesOf(lang)) /\ NoBlanks(LinesOf(lang))
             /\ ExtraOf(lang) = <<>> /\ BreaksOf(lang) = {i})
                => result.stanzas[lang] =
                      << SubSeq(Trimmed(LinesOf(lang)), 1, i),
                         SubSeq(Trimmed(LinesOf(lang)), i + 1, Len(LinesOf(lang))) >>

\* C9 witness: the written scenario
C9_Witness ==
    /\ entry = "normalize" /\ Normalized
    /\ LinesOf("Korean") = Lines(<<"A", "B", "C", "D">>) /\ BreaksOf("Korean") = {2}
    /\ result.stanzas["Korean"] = << << <<"A">>, <<"B">> >>, << <<"C">>, <<"D">> >> >>

\* C10: with n the counted length and 1 <= k <= n, the forced-break set {-k} gives
\* the stanzas the set {n - k} gives.
C10_NegativeIndexCountsFromEnd ==
    \A lang \in Languages :
        \A k \in 1..CountedLen(LinesOf(lang), replace_lb) :
            (UsesNormalizer /\ Normalized /\ BreaksOf(lang) = {0 - k})
                => result.stanzas[lang] =
                      IterStanzas(LinesOf(lang), {CountedLen(LinesOf(lang), replace_lb) - k},
                                  ExtraOf(lang), replace_lb)

\* C10 witness: -1 on five lines breaks before the last line, as 4 does
C10_Witness ==
    /\ entry = "normalize" /\ Normalized
    /\ LinesOf("Korean") = Lines(<<"A", "B", "C", "D", "E">>) /\ BreaksOf("Korean") = {-1}
    /\ result.stanzas["Korean"] =
          << << <<"A">>, <<"B">>, <<"C">>, <<"D">> >>, << <<"E">> >> >>

----------------------------------------------------------------------------
(* C11..C15: overrides, repetition and independence *)

\* the lines that are not break markers (a marker is a line that is the sentinel once
\* trimmed, as the loop of _iter_stanzas tests it)
Unmarked(lines) == SelectSeq(lines, LAMBDA line : IsList(line) \/ Strip(Text(line)) # BR)

\* the normalizer's answer is that of its first normalize() call
FirstCall == calls <= 1

\* C11 (as claimed): with the replace flag, the stanzas of a language of text lines
\* are those of its marker-stripped sequence under the forced-break indices alone.
C11_ReplaceLeavesOnlyForcedBreaks ==
    \A lang \in Languages :
        (UsesNormalizer /\ Normalized /\ FirstCall /\ replace_lb /\ AllText(LinesOf(lang)))
            => result.stanzas[lang] =
                  IterStanzas(Unmarked(LinesOf(lang)), BreaksOf(lang), ExtraOf(lang), FALSE)

\* a forced-break set with its negative indices resolved against n lines
Resolved(breaks, n) == {b \in breaks : b >= 0} \cup {n + b : b \in {x \in breaks : x < 0}}

\* C12 (as claimed): without the replace flag, lines L with extra lines E give the
\* stanzas of L followed by E with no extra lines, under the forced-break set resolved
\* against len(L).
C12_ExtraLinesContinue ==
    \A lang \in Languages :
        (UsesNormalizer /\ Normalized /\ FirstCall /\ ~replace_lb)
            => result.stanzas[lang] =
                  IterStanzas(LinesOf(lang) \o ExtraOf(lang),
                              Resolved(BreaksOf(lang), Len(LinesOf(lang))), <<>>, FALSE)

\* C12 (amended): the same, for forced-break sets whose negative indices all point
\* into L (none is below -len(L)).
C12_ExtraLinesContinueInRange ==
    \A lang \in Languages :
        (/\ UsesNormalizer /\ Normalized /\ ~replace_lb
         /\ \A b \in BreaksOf(lang) : b >= 0 - Len(LinesOf(lang)))
            => result.stanzas[lang] =
                  IterStanzas(LinesOf(lang) \o ExtraOf(lang),
                              Resolved(BreaksOf(lang), Len(LinesOf(lang))), <<>>, FALSE)

\* C12 witness: -1 on two lines followed by one extra line breaks before the second
\* line, and the extra line joins the last stanza
C12_Witness ==
    /\ entry = "normalize" /\ Normalized /\ ~replace_lb
    /\ LinesOf("Korean") = <<Str(A), Str(PaddedB)>> /\ ExtraOf("Korean") = <<Str(A)>>
    /\ BreaksOf("Korean") = {-1}
    /\ result.stanzas["Korean"] = << <<A>>, <<<<"B">>, A>> >>

\* the forced-break indices of the language without index b
Without(lang, b) == BreaksOf(lang) \ {b}

\* C13 (as claimed): with n the length of the scraped sequence, a forced-break index
\* i >= n or below -n changes nothing, also when extra lines are supplied.
C13_IndexBeyondScrapedIsNoOp ==
    \A lang \in Languages :
        \A b \in BreaksOf(lang) :
            (/\ UsesNormalizer /\ Normalized /\ FirstCall
             /\ (b >= Len(LinesOf(lang)) \/ b < 0 - Len(LinesOf(lang))))
                => result.stanzas[lang] =
                      IterStanzas(LinesOf(lang), Without(lang, b), ExtraOf(lang), replace_lb)

\* the working sequence: the counted lines followed by the extra lines
WorkingLen(lang) == CountedLen(LinesOf(lang), replace_lb) + Len(ExtraOf(lang))

\* C13 (amended): in one normalization of fresh arguments (normalize_lyrics, the
\* first normalize() of a normalizer) a forced-break index at or beyond the length
\* of the working sequence, or a negative index below minus the counted length,
\* changes nothing.  An index from the counted length on that points at an extra
\* line does break there.
C13_IndexBeyondWorkingIsNoOp ==
    \A lang \in Languages :
        \A b \in BreaksOf(lang) :
            (/\ UsesNormalizer /\ Normalized /\ FirstCall
             /\ (b >= WorkingLen(lang) \/ b < 0 - CountedLen(LinesOf(lang), replace_lb)))
                => result.stanzas[lang] =
                      IterStanzas(LinesOf(lang), Without(lang, b), ExtraOf(lang), replace_lb)

\* C13 witness: index 3 beside index 1 on two lines and one extra line; only index 1
\* breaks
C13_Witness ==
    /\ entry = "normalize" /\ Normalized /\ ~replace_lb
    /\ LinesOf("Korean") = <<Str(A), Str(PaddedB)>> /\ ExtraOf("Korean") = <<Str(A)>>
    /\ BreaksOf("Korean") = {1, 3}
    /\ result.stanzas["Korean"] = << <<A>>, <<<<"B">>, A>> >>

\* C14 (as claimed): a second normalize() on the same LyricNormalizer, with the same
\* ignore_len, ends as the first did: the same stanzas, or the same mismatch.
C14_NormalizeIsRepeatable ==
    [][(calls = 1 /\ calls' = 2 /\ result'.ignore_len = result.ignore_len)
          => result' = result]_vars

\* other inputs a language could have been given
AltLines == {<<>>, <<Str(A)>>, <<Str(A), Str(BR), Str(A)>>, <<Lst(<<A>>), Str(A)>>}
AltBreaks == {{}, {1}, {-1}}
AltExtra == {<<>>, <<Str(A)>>}

\* the map with key set to value
WithKey(map, key, value) ==
    [k \in DOMAIN map \cup {key} |-> IF k = key THEN value ELSE map[k]]

\* the other language of a bilingual request
Swap(lang) == IF lang = "Korean" THEN "English" ELSE "Korean"

\* the map with the entries of Korean and English exchanged
Swapped(map) == [k \in {Swap(l) : l \in DOMAIN map} |-> map[Swap(k)]]

\* C15: the stanzas of a language stay the same whatever lines, forced-break indices
\* and extra lines another language is given instead of its own; and exchanging the
\* inputs of Korean and English exchanges their stanzas.
C15_LanguagesAreIndependent ==
    (UsesNormalizer /\ Normalized /\ FirstCall)
        => /\ \A lang \in Languages : \A other \in Languages \ {lang} :
                \A lines \in AltLines, breaks \in AltBreaks, extra \in AltExtra :
                    AllStanzas(WithKey(lang_lyrics_map, other, lines),
                               WithKey(add_linebreaks, other, breaks),
                               WithKey(add_lines, other, extra), replace_lb)[lang]
                        = result.stanzas[lang]
           /\ Languages = Bilingual
                => \A lang \in Bilingual :
                      AllStanzas(Swapped(lang_lyrics_map), Swapped(add_linebreaks),
                                 Swapped(add_lines), replace_lb)[lang]
                          = result.stanzas[Swap(lang)]

\* C15 witness: Korean is split by its own forced break, and the translation, given
\* none, is not
C15_Witness ==
    /\ entry = "normalize" /\ Normalized /\ FirstCall
    /\ LinesOf("Korean") = <<Str(A), Str(PaddedB)>> /\ LinesOf("English") = <<Str(A)>>
    /\ BreaksOf("Korean") = {1} /\ BreaksOf("English") = {}
    /\ result.stanzas["Korean"] = << <<A>>, <<<<"B">>>> >>
    /\ result.stanzas["English"] = << <<A>> >>

----------------------------------------------------------------------------
(* C16..C20: sources, failures and output documents *)

\* the command has ended
Ended == pc = "done"

\* both sites of a hybrid request are registered
HybridSitesKnown == command.kor_site \in SiteNames /\ command.eng_site \in SiteNames

\* C16: the bundle HybridLyricFetcher.get_lyrics returns carries the caller's title
\* if one is given, else the title of the Korean source, else that of the English
\* source, else no title; its Korean lines are those of the Korean source and its
\* English lines those of the English source.
C16_HybridBundle ==
    (entry = "hybrid_get" /\ bundle.kind = "ok")
        => /\ IF Truthy(command.title) THEN bundle.title = command.title
              ELSE IF Truthy(sources.kor.title) THEN bundle.title = sources.kor.title
              ELSE IF Truthy(sources.eng.title) THEN bundle.title = sources.eng.title
              ELSE ~Truthy(bundle.title)
           /\ DOMAIN bundle.lyrics = {"Korean", "English"}
           /\ bundle.lyrics["Korean"] = sources.kor.lyrics["Korean"]
           /\ bundle.lyrics["English"] = sources.eng.lyrics["English"]

\* C16 witness: no title given, both sources have one, and the Korean one is taken
C16_Witness ==
    /\ entry = "hybrid_get" /\ bundle.kind = "ok"
    /\ command.title = NoneVal
    /\ sources.kor.title = <<"K">> /\ sources.eng.title = <<"E">>
    /\ bundle.title = <<"K">>
    /\ bundle.lyrics["English"] = Lines(<<"e1", Br, "e2">>)

\* C17: a command with an invalid configuration ends with its error and has requested
\* no page: process_lyrics (called directly, by get or by hybrid-get) with an output
\* directory that exists and is not a directory; get and hybrid-get with a site name
\* that is not registered; the song endpoint, which answers 400 for such a site.
C17_InvalidConfigurationFailsFirst ==
    /\ (entry \in {"process_lyrics", "get", "hybrid_get"} /\ Ended /\ ~command.output_ok)
          => error = "ValueError" /\ fetched = <<>> /\ files = {}
    /\ (entry = "get" /\ Ended /\ command.site \notin SiteNames)
          => error = "ValueError" /\ fetched = <<>> /\ files = {}
    /\ (entry = "hybrid_get" /\ Ended /\ ~HybridSitesKnown)
          => error = "ValueError" /\ fetched = <<>> /\ files = {}
    /\ (entry = "song" /\ Ended /\ RequestedSite \notin SiteNames)
          => response.status = 400 /\ fetched = <<>>

\* C17 witness: a hybrid-get whose Korean site is registered and whose English site
\* is not has ended with the error, and neither source was asked
C17_Witness ==
    /\ entry = "hybrid_get" /\ Ended
    /\ command.kor_site \in SiteNames /\ command.eng_site \notin SiteNames
    /\ command.output_ok
    /\ sources.kor.kind = "ok" /\ sources.eng.kind = "ok"
    /\ error = "ValueError" /\ fetched = <<>>

\* the title process_lyrics resolves for the k-th song of a get command
ResolvedTitle(k) ==
    Or(command.title, Or(command.songs[k].title, command.songs[k].endpoint))

\* C18: when get_lyrics fails, for the one source or for either source of a hybrid
\* request, the command ends with that failure, nothing is normalized and no document
\* is written for the song.
C18_FetchFailureAborts ==
    /\ (entry = "process_lyrics" /\ bundle.kind = "FetchError")
          => Ended /\ error = "FetchError" /\ result = NoResult /\ files = {}
    /\ (/\ entry = "hybrid_get" /\ Ended /\ HybridSitesKnown /\ command.output_ok
        /\ (sources.kor.kind # "ok" \/ sources.eng.kind # "ok"))
          => error = "FetchError" /\ result = NoResult /\ files = {}
    /\ (/\ entry = "get" /\ command.output_ok
        /\ position >= 1 /\ command.songs[position].kind # "ok")
          => /\ Ended /\ error = "FetchError"
             /\ position = 1 => result = NoResult
             /\ \A f \in files : \E k \in 1..(position - 1) : f.title = ResolvedTitle(k)

\* C18 witness: the Korean source answered, the English source failed, and the
\* hybrid request ended with the failure
C18_Witness ==
    /\ entry = "hybrid_get" /\ Ended
    /\ sources.kor.kind = "ok" /\ sources.eng.kind = "FetchError"
    /\ fetched = <<KoreanEndpoint, EnglishEndpoint>>
    /\ error = "FetchError" /\ result = NoResult /\ files = {}

\* the search endpoint was asked for an operation the site's fetcher does not have
Unsupported ==
    /\ entry = "search" /\ Truthy(command.query) /\ RequestedSite \in SiteNames
    /\ IF command.index THEN RequestedSite \notin ImplementsIndex
       ELSE RequestedSite \notin ImplementsSearch

\* C19 (as claimed): for every registered site, in the search mode and in the index
\* mode, an operation the site's fetcher does not implement is answered with status
\* 501, and no page is requested.
C19_UnsupportedIsNotImplemented ==
    (Unsupported /\ Ended) => response.status = 501 /\ fetched = <<>>

\* C20 (as claimed): when every song of a get command has been fetched, normalized
\* and written, there is one document per song, named from the song's resolved
\* title.
C20_OneDocumentPerSong ==
    (entry = "get" /\ Ended /\ error = "none" /\ position = Len(command.songs))
        => /\ Cardinality(files) = Len(command.songs)
           /\ \A k \in 1..Len(command.songs) :
                 \E f \in files : /\ f.name = OutputFilename(ResolvedTitle(k))
                                  /\ f.title = ResolvedTitle(k)

----------------------------------------------------------------------------
(* Claims about the page cache *)

\* the call a cached request was made with
ServedCall == [site |-> served.site, args |-> served.args, day |-> served.day]

SearchEntries == {e \in cache : e.prefix = "search__"}
PageEntries == {e \in cache : e.prefix = "get__"}

\* a page, apart from the day it was fetched on
Undated(page) == [page EXCEPT !.day = 0]

\* C21 (as claimed): the key of a search is that of a stored search exactly when the
\* site, the query, the sub-query and the day are the same, and the cache answers a
\* search only from the entry of that very search.
C21_SearchCachedPerQueryAndDay ==
    served.prefix = "search__" =>
        \A e \in SearchEntries :
            /\ (e.key = served.key) <=> (e.call = ServedCall)
            /\ served.hit /\ e.key = served.key => e.call = ServedCall

\* C22 (as claimed): the key of a page fetch is that of a stored page exactly when the
\* host, the endpoint and the extra parameters, as mappings, are the same; the day and
\* the order the parameters were written in play no part.
C22_HtmlKeyIsTheRequest ==
    served.prefix = "get__" =>
        \A e \in PageEntries :
            (e.key = served.key) <=> (Undated(e.page) = Undated(served.wanted))

----------------------------------------------------------------------------
(* C23: forced breaks, whatever the line *)

\* the sequence the walk goes through
WorkingOf(lang) == Working(LinesOf(lang), ExtraOf(lang), replace_lb)

\* the forced-break indices of the walk that point into the working sequence
ForcedPositions(lang) ==
    {i \in Resolved(BreaksOf(lang), CountedLen(LinesOf(lang), replace_lb)) :
        0 <= i /\ i < Len(WorkingOf(lang))}

\* the number of content lines before position i (zero-based), and from it on
ContentBefore(lang, i) == Len(Contents(SubSeq(WorkingOf(lang), 1, i)))
ContentFrom(lang, i) == Len(Contents(SubSeq(WorkingOf(lang), i + 1, Len(WorkingOf(lang)))))

\* the numbers of lines at which a stanza of the list ends
Boundaries(stanzas) == {Len(Flatten(SubSeq(stanzas, 1, k))) : k \in 1..Len(stanzas)}

\* C23 (as claimed): at every forced-break position reached with content before it
\* and content from it on, a stanza ends: no stanza holds content of both sides,
\* whatever the line at that position is.
C23_BreakAtEveryForcedPosition ==
    \A lang \in Languages :
        (UsesNormalizer /\ Normalized /\ FirstCall /\ AllText(LinesOf(lang)))
            => \A i \in ForcedPositions(lang) :
                  (ContentBefore(lang, i) > 0 /\ ContentFrom(lang, i) > 0)
                      => ContentBefore(lang, i) \in Boundaries(result.stanzas[lang])

----------------------------------------------------------------------------
(* C24: a normalization leaves the caller's arguments alone *)

----------------------------------------------------------------------------
(* C25, C27: padding, and the text of the mismatch report *)

\* the language of the normalizer a rendered language comes from
SourceLanguage(lang) == IF lang = "Translation" THEN "English" ELSE lang

\* rendered is stanzas padded at the end with empty stanzas up to count
PaddedTo(rendered, stanzas, count) ==
    /\ Len(rendered) = count
    /\ Len(stanzas) <= count
    /\ SubSeq(rendered, 1, Len(stanzas)) = stanzas
    /\ \A k \in (Len(stanzas) + 1)..count : rendered[k] = <<>>

\* C25: in the document process_lyrics wrote and in the page render_song gave for
\* the song endpoint, stanza_count is the largest number of stanzas the normalizer
\* returned for a language, and every language's list is the normalizer's stanzas
\* followed by empty stanzas up to stanza_count.
C25_PaddingOnlyAtTheEnd ==
    /\ (entry \in {"process_lyrics", "get"} /\ Normalized)
          => \A doc \in files :
                /\ doc.stanza_count = Max({Len(result.stanzas[lang]) : lang \in Languages})
                /\ \A lang \in DOMAIN doc.lyrics :
                      PaddedTo(doc.lyrics[lang], result.stanzas[SourceLanguage(lang)], doc.stanza_count)
    /\ (entry = "song" /\ pc = "done" /\ response.view = "song.html")
          => /\ response.stanza_count = Max({Len(result.stanzas[lang]) : lang \in Languages})
             /\ \A lang \in DOMAIN response.lyrics :
                   PaddedTo(response.lyrics[lang], result.stanzas[SourceLanguage(lang)],
                            response.stanza_count)

\* C25 witness: a tolerated mismatch, one stanza against two, and the document
\* written with an empty stanza after the one of the translation
C25_Witness ==
    /\ entry = "process_lyrics" /\ result.kind = "return"
    /\ Len(result.stanzas["Korean"]) = 2 /\ Len(result.stanzas["English"]) = 1
    /\ \E doc \in files : /\ doc.stanza_count = 2
                          /\ doc.lyrics["Translation"] = Append(result.stanzas["English"], <<>>)
                          /\ doc.lyrics["Korean"] = result.stanzas["Korean"]

\* C27 (as claimed): parsing the text of the mismatch report the way reformatted()
\* does gives back, for every language, the stanzas the normalizer built.
C27_ReportTextRoundTrips ==
    (entry = "song" /\ response.view = "reformat.html")
        => \A lang \in DOMAIN response.text : ParseText(response.text[lang]) = result.stanzas[lang]

----------------------------------------------------------------------------
(* C26: a title and one document whenever the lyrics were fetched and normalized *)

\* get_lyrics and the normalization both succeeded
FetchedAndNormalized == bundle.kind = "ok" /\ result.kind = "return"

\* C26 (as claimed): for a single-site fetcher, a hybrid one and one of two text
\* files, when the fetch and the normalization succeeded, process_lyrics ends without
\* an error and has written exactly one document, under a title that is defined (for
\* the hybrid and the text-file commands: the title given, else the one discovered).
C26_TitleAndOneDocument ==
    (entry \in {"process_lyrics", "hybrid_get", "file_get"} /\ Ended /\ FetchedAndNormalized)
        => /\ error = "none"
           /\ Cardinality(files) = 1
           /\ \A doc \in files :
                 /\ doc.title # NoneVal
                 /\ entry # "process_lyrics" => doc.title = Or(command.title, bundle.title)

----------------------------------------------------------------------------
(* C28: the two normalization variants on clean input *)

\* every line is the sentinel or a non-blank text without surrounding whitespace
CleanLines(lines) ==
    \A k \in 1..Len(lines) :
        /\ ~IsList(lines[k])
        /\ Text(lines[k]) # <<>>
        /\ Strip(Text(lines[k])) = Text(lines[k])

CleanInput == \A lang \in Languages : CleanLines(LinesOf(lang)) /\ CleanLines(ExtraOf(lang))

\* what the variant that did not run gives for the arguments of the one that did
OtherVariant ==
    IF entry = "legacy"
    THEN NormalizeLyrics(lang_lyrics_map, add_linebreaks, add_lines, replace_lb, result.ignore_len)
    ELSE LegacyNormalizeLyrics(lang_lyrics_map, add_linebreaks, add_lines, replace_lb,
                               result.ignore_len)

\* C28 (as claimed): on clean input, whatever the forced breaks, the extra lines, the
\* replace flag and ignore_len, normalize_lyrics of __init__.py and the normalizer of
\* utils.py build the same stanzas for every language, and one raises exactly when
\* the other does.
C28_VariantsAgreeOnCleanInput ==
    (entry \in {"normalize", "legacy"} /\ Normalized /\ FirstCall /\ CleanInput)
        => /\ OtherVariant.stanzas = result.stanzas
           /\ (OtherVariant.kind = "return") <=> (result.kind = "return")

----------------------------------------------------------------------------
(* C29: the stanzas of a text file *)

\* the lines of the text file of a source, each trimmed
FileText(source) == Trimmed(sources[source].lyrics["content"])

\* positions of w where a run of lines outside D begins, and where the run that
\* begins at i ends
StartsOutside(w, D) == {i \in 1..Len(w) : w[i] \notin D /\ (i = 1 \/ w[i - 1] \in D)}
EndOutside(w, D, i) ==
    CHOOSE j \in i..Len(w) : (\A m \in i..j : w[m] \notin D) /\ (j = Len(w) \/ w[j + 1] \in D)

\* the maximal runs of consecutive lines of w that are not in D, in order
RunsOutside(w, D) ==
    [k \in 1..Cardinality(StartsOutside(w, D)) |->
        SubSeq(w, Nth(StartsOutside(w, D), k), EndOutside(w, D, Nth(StartsOutside(w, D), k)))]

\* the source a language of a file-get comes from
FileSource(lang) == IF lang = "Korean" THEN "kor" ELSE "eng"

\* C29 (as claimed): the stanzas of a text file are the maximal runs of its
\* consecutive non-blank lines, each trimmed, in file order.
C29_FileStanzasAreNonBlankRuns ==
    (entry = "file_get" /\ Normalized)
        => \A lang \in DOMAIN result.stanzas :
              result.stanzas[lang] = RunsOutside(FileText(FileSource(lang)), {<<>>})

\* C29 (amended): the stanzas of a text file are the maximal runs of its consecutive
\* lines that are neither blank nor, once trimmed, the sentinel '<br/>', each
\* trimmed, in file order.
C29_FileStanzasAreContentRuns ==
    (entry = "file_get" /\ Normalized)
        => \A lang \in DOMAIN result.stanzas :
              result.stanzas[lang] = RunsOutside(FileText(FileSource(lang)), {<<>>, BR})

\* C29 witness: a file with a line of spaces and an empty line between its two
\* content lines, the second of which is trimmed
C29_Witness ==
    /\ entry = "file_get" /\ Normalized
    /\ sources.kor.lyrics["content"] = <<Str(A), Str(Blank), Str(<<>>), Str(PaddedB)>>
    /\ result.stanzas["Korean"] = << <<A>>, << <<"B">> >> >>

----------------------------------------------------------------------------
(* C30: the rows of a musixmatch track *)

\* the rows gone through so far that have a part
RowsSoFar == SelectSeq(SubSeq(TrackRows, 1, position), LAMBDA row : row # <<>>)

\* the line recorded for a part: its text, or the sentinel when it has none
Recorded(text) == Str(IF text = <<>> THEN BR ELSE text)

\* C30: after each row, as long as no row had more than two parts, the Korean and
\* the English sequence have the same length: one line per row that has a part, the
\* first part in Korean and the second in English, the sentinel standing for an
\* empty part and, in English, for the part a row with only a Korean part lacks.
C30_RowsKeepLanguagesInStep ==
    (entry = "musixmatch" /\ position > 0 /\ error = "none")
        => /\ Len(bundle.lyrics["Korean"]) = Len(bundle.lyrics["English"])
           /\ bundle.lyrics["Korean"] = [k \in 1..Len(RowsSoFar) |-> Recorded(RowsSoFar[k][1])]
           /\ bundle.lyrics["English"] =
                 [k \in 1..Len(RowsSoFar) |->
                     IF Len(RowsSoFar[k]) = 2 THEN Recorded(RowsSoFar[k][2]) ELSE Str(BR)]

\* C30 witness: a row with only a Korean part, then a row whose Korean part is empty
C30_Witness ==
    /\ entry = "musixmatch" /\ position = 2 /\ error = "none"
    /\ TrackRows = << <<A>>, <<<<>>, A>> >>
    /\ bundle.lyrics["Korean"] = <<Str(A), Str(BR)>>
    /\ bundle.lyrics["English"] = <<Str(BR), Str(A)>>

====
